---- MODULE Spec2Model ----
(***************************************************************************)
(* A model of the Test Tree (src/src/testTree.ts) and of the Test Runner   *)
(* (src/src/runner/runner.ts) of the vitest extension.                     *)
(*                                                                         *)
(* Strings that the code takes apart or concatenates (paths, project       *)
(* names, item ids) are sequences of one-character strings, so that        *)
(* dirname, the trailing-slash test and the id concatenation are computed  *)
(* as the code computes them.                                              *)
(***************************************************************************)
EXTENDS Integers, Sequences, FiniteSets, TLC

\* ------------------------------------------------------------------ maps

EmptyMap == [x \in {} |-> {}]

Put(m, k, v) == [x \in (DOMAIN m) \cup {k} |-> IF x = k THEN v ELSE m[x]]

Del(m, k) == [x \in (DOMAIN m) \ {k} |-> m[x]]

Has(m, k) == k \in DOMAIN m

Range(s) == {s[i] : i \in DOMAIN s}

\* ---------------------------------------------------------------- bounds

\* How many runTests/runCoverage calls the editor issues in one behaviour.
MaxRequests == 2

\* How many runs (dispatched or watch-triggered) the process starts.
MaxProcRuns == 2

\* The process runs of the behaviours in which calls wait for a run to end.
MaxWaitingRuns == 3

\* The one-shot requests of the behaviours in which requests overlap.
MaxOverlap == 3

\* ----------------------------------------------------------------- paths

Slash == "/"

\* pathe's normalize on the paths used here: backslashes become slashes.
normalize(p) == [i \in DOMAIN p |-> IF p[i] = "\\" THEN Slash ELSE p[i]]

StripSlash(p) ==
    IF Len(p) > 0 /\ p[Len(p)] = Slash THEN SubSeq(p, 1, Len(p) - 1) ELSE p

LastSlash(p) ==
    LET S == {i \in DOMAIN p : p[i] = Slash}
    IN  IF S = {} THEN 0 ELSE CHOOSE i \in S : \A j \in S : j <= i

\* pathe's dirname of an absolute path: drop the last segment; "/" at the top.
dirname(p) ==
    LET q == StripSlash(normalize(p))
        i == LastSlash(q)
    IN  IF i <= 1 THEN <<Slash>> ELSE SubSeq(q, 1, i - 1)

\* file[file.length - 1] === '/'
IsFolderSentinel(p) == Len(p) > 0 /\ p[Len(p)] = Slash

\* The paths of the workspace used by the model.
RootW == <<"/", "w">>
RootV == <<"/", "v">>
DirD == <<"/", "w", "/", "d">>
FileA == <<"/", "w", "/", "a">>
FileB == <<"/", "w", "/", "d", "/", "b">>

NoProject == <<>>
ProjectP == <<"p">>

Paths == {FileA, FileB}

\* The (project, file) pairs the runner knows: FileB belongs to two projects.
TestFiles == {<<NoProject, FileA>>, <<NoProject, FileB>>, <<ProjectP, FileB>>}

\* An api handle: its workspace folder and its project tag.
ApiW == [workspaceFolder |-> RootW, tag |-> "tagW"]
ApiV == [workspaceFolder |-> RootV, tag |-> "tagV"]

IsUnder(p, root) ==
    /\ Len(p) > Len(root)
    /\ SubSeq(p, 1, Len(root)) = root
    /\ p[Len(root) + 1] = Slash

\* ----------------------------------------------------------------- items

\* A TestItem is named by the class of map it was created for and its id.
NoRef == <<"none", <<>>>>
LoaderItem == <<"loader", <<>>>>
FolderRef(p) == <<"folder", p>>
FileRef(id) == <<"file", id>>
TaskRef(id) == <<"task", id>>

Undef == [def |-> FALSE, text |-> <<>>]
Text(s) == [def |-> TRUE, text |-> s]

NoRange == [def |-> FALSE, line |-> 0, column |-> 0]

NewItem(kind) ==
    [kind |-> kind, parent |-> NoRef, children |-> {}, tags |-> <<>>,
     error |-> Undef, canResolveChildren |-> FALSE, range |-> NoRange,
     sortText |-> <<>>, filepath |-> <<>>, inline |-> FALSE]

EmptyTree ==
    [flatTestItems |-> EmptyMap, fileItems |-> EmptyMap, folderItems |-> EmptyMap,
     testItemsByFile |-> EmptyMap, watcherByFolder |-> {},
     items |-> Put(EmptyMap, LoaderItem, NewItem("loader")),
     controllerItems |-> {}]

\* item.children: the inline root's children are the controller's items.
Children(t, r) ==
    IF t.items[r].inline THEN t.controllerItems ELSE t.items[r].children

SetChildren(t, r, S) ==
    IF t.items[r].inline
    THEN [t EXCEPT !.controllerItems = S]
    ELSE [t EXCEPT !.items[r].children = S]

\* children.add(item): keyed by id; the host sets item.parent, which stays
\* undefined for an item of the controller's own collection.
ChildrenAdd(t, p, c) ==
    LET S  == {x \in Children(t, p) : x[2] # c[2]} \cup {c}
        t1 == SetChildren(t, p, S)
    IN  [t1 EXCEPT !.items[c].parent = IF t.items[p].inline THEN NoRef ELSE p]

\* children.delete(id)
ChildrenDelete(t, p, id) ==
    SetChildren(t, p, {x \in Children(t, p) : x[2] # id})

\* --------------------------------------------------------------- folders

getOrCreateInlineFolderItem(t, folder) ==
    LET id == normalize(folder)
    IN  IF Has(t.folderItems, id) THEN t
        ELSE [t EXCEPT
                !.items = Put(@, FolderRef(id),
                              [NewItem("folder") EXCEPT !.inline = TRUE]),
                !.folderItems = Put(@, id, FolderRef(id))]

_createFolderItem(t, folder) ==
    [t EXCEPT !.items = Put(@, FolderRef(normalize(folder)), NewItem("folder"))]

getOrCreateWorkspaceFolderItem(t, folder) ==
    LET id == normalize(folder)
    IN  IF Has(t.folderItems, id) THEN t
        ELSE [_createFolderItem(t, folder) EXCEPT
                !.folderItems = Put(@, id, FolderRef(id))]

\* reset that registers no inline root for a single workspace folder.
resetWithoutInlineRoot(t, roots) ==
    IF Len(roots) = 1
    THEN [EmptyTree EXCEPT !.controllerItems = {LoaderItem}]
    ELSE LET RECURSIVE mk(_, _)
             mk(tt, i) ==
                IF i > Len(roots) THEN tt
                ELSE mk(getOrCreateWorkspaceFolderItem(tt, roots[i]), i + 1)
         IN  [mk(EmptyTree, 1) EXCEPT !.controllerItems =
                                {FolderRef(normalize(roots[i])) : i \in DOMAIN roots}]

\* reset(workspaceFolders): one inline root, or one visible folder per root.
reset(t, roots) ==
    LET t0 == EmptyTree
    IN  IF Len(roots) = 1
        THEN [getOrCreateInlineFolderItem(t0, roots[1]) EXCEPT
                !.controllerItems = {LoaderItem}]
        ELSE LET RECURSIVE mk(_, _)
                 mk(tt, i) ==
                    IF i > Len(roots) THEN tt
                    ELSE mk(getOrCreateWorkspaceFolderItem(tt, roots[i]), i + 1)
                 t1 == mk(t0, 1)
             IN  [t1 EXCEPT !.controllerItems =
                                {FolderRef(normalize(roots[i])) : i \in DOMAIN roots}]

AddTag(tags, tag) == IF tag \in Range(tags) THEN tags ELSE Append(tags, tag)

\* getOrCreateFolderTestItem: the result is the tree, the folder item and
\* ok = FALSE when the recursion over dirname never reaches a known folder.
RECURSIVE getOrCreateFolderTestItem(_, _, _)
getOrCreateFolderTestItem(t, api, folder) ==
    LET cached(c) ==
            [t |-> [t EXCEPT !.items[c].tags = AddTag(@, api.tag)],
             item |-> c, ok |-> TRUE]
        folderItem(tt, parentItem, ref) ==
            [t |-> [ChildrenAdd([_createFolderItem(tt, folder) EXCEPT
                                    !.items[ref].tags = <<api.tag>>],
                                parentItem, ref)
                      EXCEPT !.folderItems = Put(@, folder, ref)],
             item |-> ref, ok |-> TRUE]
        below(r) ==
            IF ~r.ok THEN [t |-> t, item |-> NoRef, ok |-> FALSE]
            ELSE folderItem(r.t, r.item, FolderRef(normalize(folder)))
    IN  IF Has(t.folderItems, folder) THEN cached(t.folderItems[folder])
        ELSE IF dirname(folder) = folder
        THEN [t |-> t, item |-> NoRef, ok |-> FALSE]
        ELSE below(getOrCreateFolderTestItem(t, api, dirname(folder)))

\* ----------------------------------------------------------------- files

\* The id of a file item without the project name.
FileIdOfPath(file, project) == normalize(file)

FileId(file, project) == normalize(file) \o project

getOrCreateFileTestItem(t, api, project, file) ==
    LET cachedItems(tt, normalizedFile) ==
            IF Has(tt.testItemsByFile, normalizedFile)
            THEN tt.testItemsByFile[normalizedFile] ELSE <<>>
        register(tt, fileId, normalizedFile, ref) ==
            [t |-> [tt EXCEPT
                      !.fileItems = Put(@, fileId, ref),
                      !.testItemsByFile =
                          Put(@, normalizedFile,
                              Append(cachedItems(tt, normalizedFile), ref))],
             item |-> ref, ok |-> TRUE]
        testFileItem(normalizedFile) ==
            [NewItem("file") EXCEPT !.tags = <<api.tag>>,
                                    !.canResolveChildren = TRUE,
                                    !.filepath = normalizedFile]
        create(tt, parentItem, fileId, normalizedFile, ref) ==
            register(ChildrenAdd([tt EXCEPT !.items =
                                      Put(@, ref, testFileItem(normalizedFile))],
                                 parentItem, ref),
                     fileId, normalizedFile, ref)
        below(r, fileId) ==
            IF ~r.ok THEN [t |-> t, item |-> NoRef, ok |-> FALSE]
            ELSE create(r.t, r.item, fileId, normalize(file), FileRef(fileId))
        lookup(fileId) ==
            IF Has(t.fileItems, fileId)
            THEN [t |-> t, item |-> t.fileItems[fileId], ok |-> TRUE]
            ELSE below(getOrCreateFolderTestItem(t, api, dirname(file)), fileId)
    IN  lookup(FileId(file, project))

getFileTestItems(t, fsPath) ==
    IF Has(t.testItemsByFile, normalize(fsPath))
    THEN t.testItemsByFile[normalize(fsPath)] ELSE <<>>

\* discoverAllTestFiles: one (project, file) pair after the other.
RECURSIVE discoverAllTestFiles(_, _, _)
discoverAllTestFiles(t, api, files) ==
    IF files = <<>> THEN t
    ELSE discoverAllTestFiles(
            getOrCreateFileTestItem(t, api, files[1][1], files[1][2]).t,
            api, Tail(files))

\* recursiveDelete(item)
RECURSIVE recursiveDelete(_, _)
recursiveDelete(t, item) ==
    LET up(tt, p) ==
            IF Children(tt, p) = {} THEN recursiveDelete(tt, p) ELSE tt
        folder(tt, p) ==
            up(IF tt.items[item].kind = "folder"
               THEN [tt EXCEPT !.folderItems = Del(@, item[2])]
               ELSE tt, p)
        file(tt, p) ==
            folder(IF tt.items[item].kind = "file"
                   THEN [tt EXCEPT
                           !.testItemsByFile = Del(@, tt.items[item].filepath),
                           !.fileItems = Del(@, item[2])]
                   ELSE tt, p)
        detach(p) ==
            IF p = NoRef THEN t
            ELSE file([ChildrenDelete(t, p, item[2]) EXCEPT
                         !.flatTestItems = Del(@, item[2])], p)
    IN  detach(t.items[item].parent)

\* watcher.onDidDelete: items?.forEach(item => this.recursiveDelete(item))
RECURSIVE deleteEach(_, _)
deleteEach(t, items) ==
    IF items = <<>> THEN t
    ELSE deleteEach(recursiveDelete(t, items[1]), Tail(items))

onDidDelete(t, file) ==
    IF Has(t.testItemsByFile, normalize(file))
    THEN deleteEach(t, t.testItemsByFile[normalize(file)])
    ELSE t

watchTestFilesInWorkspace(t, api, testFiles) ==
    LET t1 == discoverAllTestFiles(t, api, testFiles)
    IN  [t1 EXCEPT !.watcherByFolder = @ \cup {api.workspaceFolder}]

\* ------------------------------------------------------------- reports

\* A reported error: error.stack || error.message picks the stack when set.
Err(stack, message) == [stack |-> stack, message |-> message, stacks |-> <<>>]

StackOrMessage(e) == IF e.stack # "" THEN e.stack ELSE e.message

\* array.join('\n')
RECURSIVE Join(_)
Join(lines) ==
    IF lines = <<>> THEN <<>>
    ELSE IF Len(lines) = 1 THEN <<lines[1]>>
    ELSE <<lines[1], "\n">> \o Join(Tail(lines))

\* A task result: absent, or a state with an optional error list.
NoResult == [def |-> FALSE, state |-> "", errorsDef |-> FALSE, errors |-> <<>>]
Result(state) == [def |-> TRUE, state |-> state, errorsDef |-> FALSE, errors |-> <<>>]
ResultErr(state, errors) ==
    [def |-> TRUE, state |-> state, errorsDef |-> TRUE, errors |-> errors]

NoLocation == [def |-> FALSE, line |-> 0, column |-> 0]
Location(line, column) == [def |-> TRUE, line |-> line, column |-> column]

\* A reported test: no `tasks` property.
Test(id, location, mode, result) ==
    [id |-> id, type |-> "test", hasTasks |-> FALSE, tasks |-> <<>>,
     location |-> location, mode |-> mode, result |-> result]

\* A reported suite with its sub-tasks.
Suite(id, tasks, result) ==
    [id |-> id, type |-> "suite", hasTasks |-> TRUE, tasks |-> tasks,
     location |-> NoLocation, mode |-> "run", result |-> result]

\* A file report of the runner.
File(id, filepath, projectName, tasks, result) ==
    [id |-> id, filepath |-> filepath, projectName |-> projectName,
     tasks |-> tasks, result |-> result]

TaskIds(tasks) == {tasks[i].id : i \in DOMAIN tasks}

\* new Set([...parent.tags, tag]) as an array
RECURSIVE Dedup(_)
Dedup(s) ==
    IF s = <<>> THEN <<>>
    ELSE LET d == Dedup(SubSeq(s, 1, Len(s) - 1))
         IN  IF s[Len(s)] \in Range(d) THEN d ELSE Append(d, s[Len(s)])

\* collectTasks(tag, fileData, tasks, parent); fileData is named by its filepath.
RECURSIVE collectTasks(_, _, _, _, _)
collectTasks(t, tag, fileData, tasks, parent) ==
    LET testItem(tt, task, base) ==
            [base EXCEPT
               !.tags = Dedup(Append(tt.items[parent].tags, tag)),
               !.error = IF task.result.def /\ task.result.errorsDef
                         THEN Text(Join([j \in DOMAIN task.result.errors |->
                                           task.result.errors[j].stack]))
                         ELSE Undef,
               !.range = IF task.location.def
                         THEN [def |-> TRUE, line |-> task.location.line - 1,
                               column |-> task.location.column]
                         ELSE @,
               !.sortText = IF task.location.def THEN @ ELSE task.id,
               !.kind = IF task.type = "suite" THEN "suite"
                        ELSE IF task.type \in {"test", "custom"} THEN "test"
                        ELSE @,
               !.filepath = IF task.type \in {"suite", "test", "custom"}
                            THEN fileData ELSE @]
        subTasks(tt, task, ref) ==
            IF task.hasTasks
            THEN collectTasks(tt, tag, fileData, task.tasks, ref) ELSE tt
        add(tt, task, ref, base) ==
            subTasks(ChildrenAdd([tt EXCEPT
                                    !.items = Put(@, ref, testItem(tt, task, base)),
                                    !.flatTestItems = Put(@, task.id, ref)],
                                 parent, ref),
                     task, ref)
        one(tt, task) ==
            IF Has(tt.flatTestItems, task.id)
            THEN add(tt, task, tt.flatTestItems[task.id],
                     tt.items[tt.flatTestItems[task.id]])
            ELSE add(tt, task, TaskRef(task.id), NewItem("task"))
        RECURSIVE each(_, _)
        each(tt, i) ==
            IF i > Len(tasks) THEN tt ELSE each(one(tt, tasks[i]), i + 1)
        \* remove tasks that are no longer present
        prune(tt, ids) ==
            SetChildren(tt, parent, {c \in Children(tt, parent) : c[2] \in ids})
    IN  prune(each(t, 1), TaskIds(tasks))

NoTestsFound(filepath) == <<"No tests found in ">> \o filepath

\* collectFile(api, file); the tree is unchanged when the folder chain cannot
\* be resolved (the call throws before it changes anything).
collectFile(t, api, file) ==
    LET error(tt, fileTestItem) ==
            IF file.result.def /\ file.result.errorsDef
            THEN Text(Join([j \in DOMAIN file.result.errors |->
                              StackOrMessage(file.result.errors[j])]))
            ELSE IF Len(file.tasks) = 0
            THEN Text(NoTestsFound(file.filepath))
            ELSE tt.items[fileTestItem].error
        finish(tt, fileTestItem) ==
            [tt EXCEPT !.items[fileTestItem].error = error(tt, fileTestItem),
                       !.items[fileTestItem].canResolveChildren = FALSE]
        tasks(tt, fileTestItem) ==
            finish(collectTasks(tt, api.tag, tt.items[fileTestItem].filepath,
                                file.tasks, fileTestItem),
                   fileTestItem)
        start(r) ==
            IF ~r.ok THEN t
            ELSE tasks([r.t EXCEPT !.items[r.item].error = Undef,
                                   !.flatTestItems = Put(@, file.id, r.item)],
                       r.item)
    IN  start(getOrCreateFileTestItem(t, api, file.projectName, file.filepath))

getTestItemByTaskId(t, taskId) ==
    IF Has(t.flatTestItems, taskId) THEN t.flatTestItems[taskId] ELSE NoRef

\* getTestItemByTask(task) for a file report (it has a filepath).
getTestItemByFileTask(t, file) ==
    IF Has(t.flatTestItems, file.id) THEN t.flatTestItems[file.id]
    ELSE IF Has(t.fileItems, file.filepath \o file.projectName)
    THEN t.fileItems[file.filepath \o file.projectName]
    ELSE NoRef

\* getFolderFiles(folder): the file items below a folder, as a set.
RECURSIVE getFolderFiles(_, _)
getFolderFiles(t, folder) ==
    UNION {IF t.items[c].kind = "file" THEN {c}
           ELSE IF t.items[c].kind = "folder" THEN getFolderFiles(t, c)
           ELSE {} : c \in Children(t, folder)}

\* The node and all nodes below it.
RECURSIVE Descendants(_, _)
Descendants(t, r) ==
    {r} \cup UNION {Descendants(t, c) : c \in Children(t, r)}

\* The items the tree still refers to: the objects the maps, the controller
\* and the kept items' parent and children links reach. An item nothing
\* refers to is garbage and is dropped from the store.
Referenced(t) ==
    LET roots == t.controllerItems \cup Range(t.flatTestItems) \cup Range(t.fileItems)
                 \cup Range(t.folderItems) \cup {LoaderItem}
                 \cup UNION {Range(t.testItemsByFile[k]) : k \in DOMAIN t.testItemsByFile}
        RECURSIVE close(_)
        close(S) ==
            LET N == S \cup UNION {t.items[r].children \cup ({t.items[r].parent} \ {NoRef}) : r \in S}
            IN  IF N = S THEN S ELSE close(N)
    IN  close(roots)

Gc(t) == [t EXCEPT !.items = [r \in Referenced(t) |-> t.items[r]]]

\* ----------------------------------------------------------------- state

VARIABLES
    tree,     \* the TestTree: its maps, the items and the controller's items
    runner,   \* the TestRunner's fields
    host,     \* the editor and the JS runtime: open runs, suspended calls
    proc,     \* the test process behind the api
    reqs,     \* the run requests issued so far
    last      \* what the last handler did (its calls and UI effects)

vars == <<tree, runner, host, proc, reqs, last>>

NoRun == <<0, 0>>

\* The effects of one handler, empty at its start.
Effects(op, arg) ==
    [op |-> op, arg |-> arg, ev |-> 0, hadRun |-> NoRun, hadDefer |-> 0,
     marks |-> {}, ended |-> {}, opened |-> {}, enqueued |-> {}, fired |-> 0,
     api |-> <<>>, errs |-> {}, warn |-> FALSE]

\* ------------------------------------------------------ inputs of the tree

TaskS1 == <<"s", "1">>
TaskT1 == <<"t", "1">>
TaskT2 == <<"t", "2">>

\* The runner's id of a file task.
FileTaskId(filepath, projectName) == <<"#">> \o filepath \o <<"#">> \o projectName

ErrE1 == Err("stack1", "message1")
ErrE2 == Err("", "message2")

TestT1 == Test(TaskT1, Location(10, 3), "run", NoResult)
TestT2 == Test(TaskT2, NoLocation, "run", NoResult)

\* What the runner may report at position s1: nothing, a suite (empty or
\* with t1), or a test.
S1Shapes ==
    {<<>>, <<Suite(TaskS1, <<>>, NoResult)>>, <<Suite(TaskS1, <<TestT1>>, NoResult)>>,
     <<Test(TaskS1, NoLocation, "run", NoResult)>>}

T2Shapes == {<<>>, <<TestT2>>}

FileResults == {NoResult, ResultErr("fail", <<>>), ResultErr("fail", <<ErrE1, ErrE2>>)}

\* The reports of a file: FileB's tasks grow, shrink and change; the other
\* files report no task or one, with or without file-level errors.
TreeReports(filepath, projectName) ==
    IF filepath = FileB /\ projectName = NoProject
    THEN {File(FileTaskId(filepath, projectName), filepath, projectName, a \o b, NoResult) :
            a \in S1Shapes, b \in T2Shapes}
    ELSE IF projectName = NoProject
    THEN {File(FileTaskId(filepath, projectName), filepath, projectName, <<>>, r) :
            r \in FileResults}
    ELSE {File(FileTaskId(filepath, projectName), filepath, projectName, <<>>, NoResult)}

ApiOf(filepath) == IF IsUnder(filepath, RootV) THEN ApiV ELSE ApiW

WorkspaceChoices == {<<RootW>>, <<RootW, RootV>>}

\* ----------------------------------------------------- actions of the tree

TreeFrame == UNCHANGED <<runner, host, proc, reqs>>

\* reset(workspaceFolders)
TreeReset ==
    \E roots \in WorkspaceChoices :
        /\ tree' = reset(tree, roots)
        /\ last' = Effects("reset", roots)
        /\ TreeFrame

\* watchTestFilesInWorkspace(api, [[project, file]])
TreeWatch(pairs) ==
    \E pf \in pairs :
        /\ Has(tree.folderItems, ApiOf(pf[2]).workspaceFolder)
        /\ tree' = Gc(watchTestFilesInWorkspace(tree, ApiOf(pf[2]), <<pf>>))
        /\ last' = Effects("watchTestFilesInWorkspace", pf)
        /\ TreeFrame

\* collectFile(api, file)
TreeCollect(pairs) ==
    \E pf \in pairs :
        \E file \in TreeReports(pf[2], pf[1]) :
            /\ Has(tree.folderItems, ApiOf(pf[2]).workspaceFolder)
            /\ tree' = Gc(collectFile(tree, ApiOf(pf[2]), file))
            /\ last' = Effects("collectFile", file)
            /\ TreeFrame

\* watcher.onDidDelete(file) of an installed watcher
TreeDelete ==
    \E f \in Paths :
        /\ ApiOf(f).workspaceFolder \in tree.watcherByFolder
        /\ tree' = Gc(onDidDelete(tree, f))
        /\ last' = Effects("onDidDelete", f)
        /\ TreeFrame

NoRequest == [def |-> FALSE, id |-> 0, agg |-> FALSE, includeDef |-> FALSE, include |-> <<>>]

\* The fields of a new TestRunner; `listeners` are the requests whose
\* runCoverage call holds a listener of the exhaustion event.
Runner0 ==
    [continuousRequests |-> <<>>, nonContinuousRequest |-> 0,
     testRun |-> NoRun, testRunDefer |-> 0, listeners |-> <<>>]

Host0 == [openRuns |-> {}, waiters |-> <<>>, microtasks |-> <<>>, finPending |-> <<>>]

Proc0 ==
    [k |-> 0, phase |-> "idle", collecting |-> FALSE, cmd |-> 0,
     queue |-> <<>>, watching |-> FALSE, coverageEnabled |-> FALSE]

RunnerInit ==
    /\ runner = Runner0
    /\ host = Host0
    /\ proc = Proc0
    /\ reqs = <<>>

TreeInit ==
    /\ tree = EmptyTree
    /\ last = Effects("init", <<>>)
    /\ RunnerInit

TreeNext == TreeReset \/ TreeWatch(TestFiles) \/ TreeCollect(TestFiles) \/ TreeDelete

SpecTree == TreeInit /\ [][TreeNext]_vars

\* The tree of a workspace in which file /w/a belongs to the unnamed project
\* and to project p, and a second file is named /w/ap: discoveries and
\* collections only.
FileAP == FileA \o ProjectP

FilePairs ==
    {<<NoProject, FileA>>, <<ProjectP, FileA>>, <<NoProject, FileAP>>, <<ProjectP, FileAP>>}

SpecFiles ==
    TreeInit /\ [][TreeReset \/ TreeWatch(FilePairs) \/ TreeCollect(FilePairs)]_vars

\* getOrCreateFolderTestItem(api, normalizedFolder) for a folder one or two
\* levels below the root /w, called for one of two apis of that workspace
\* folder, each with its own tag; the tags the folder items had before the
\* call are recorded with the call.
FolderGet ==
    \E api \in {ApiW, [ApiW EXCEPT !.tag = "tagW2"]},
       folder \in {DirD, DirD \o <<Slash, "e">>} :
        /\ Has(tree.folderItems, api.workspaceFolder)
        /\ tree' = getOrCreateFolderTestItem(tree, api, folder).t
        /\ last' = Effects("getOrCreateFolderTestItem",
                           [api |-> api, folder |-> folder,
                            before |-> [r \in {x \in DOMAIN tree.items :
                                                  tree.items[x].kind = "folder"} |->
                                          tree.items[r].tags]])
        /\ TreeFrame

SpecFolders == TreeInit /\ [][TreeReset \/ FolderGet]_vars

\* ------------------------------------------------------------ the runner

\* The whole state, as the value the handlers transform.
World ==
    [tree |-> tree, runner |-> runner, host |-> host, proc |-> proc,
     reqs |-> reqs, last |-> last]

Commit(w) ==
    /\ tree' = w.tree
    /\ runner' = w.runner
    /\ host' = w.host
    /\ proc' = w.proc
    /\ reqs' = w.reqs
    /\ last' = w.last

\* The state at the start of a handler: nothing done yet. `ev` is the
\* process run whose event is handled, 0 for a call of the editor.
BeginEvent(op, arg, ev) ==
    [World EXCEPT !.last = [Effects(op, arg) EXCEPT !.ev = ev,
                                                    !.hadRun = runner.testRun,
                                                    !.hadDefer = runner.testRunDefer]]

Begin(op, arg) == BeginEvent(op, arg, 0)

\* A call of the process api, recorded in order.
Call(w, name) == [w EXCEPT !.last.api = Append(@, name)]

\* A promise of Promise.withResolvers() is named by the request whose
\* runTestItems call created it. resolve() readies, in the order they began
\* to wait, the calls suspended on it.
Resolve(w, d) ==
    IF d = 0 \/ w.reqs[d].defer # "pending" THEN w
    ELSE LET on(c) == c.defer = d
             off(c) == c.defer # d
         IN  [w EXCEPT !.reqs[d].defer = "resolved",
                       !.host.microtasks = @ \o SelectSeq(w.host.waiters, on),
                       !.host.waiters = SelectSeq(@, off)]

\* endTestRun()
endTestRun(w) ==
    LET run == w.runner.testRun
        w1  == IF run # NoRun
               THEN [w EXCEPT !.host.openRuns = @ \ {run}, !.last.ended = @ \cup {run}]
               ELSE w
        w2  == Resolve(w1, w1.runner.testRunDefer)
    IN  [w2 EXCEPT !.runner.testRun = NoRun, !.runner.testRunDefer = 0]

\* api.disableCoverage()
disableCoverage(w) ==
    [Call(w, "disableCoverage") EXCEPT !.proc.coverageEnabled = FALSE]

\* The listener runCoverage registers on the exhaustion event, once per
\* listener still registered.
RECURSIVE RunListeners(_, _)
RunListeners(w, n) ==
    IF n = 0 THEN w
    ELSE IF Len(w.runner.continuousRequests) = 0 /\ w.runner.nonContinuousRequest = 0
    THEN RunListeners([disableCoverage(w) EXCEPT !.runner.listeners = Tail(@)], n - 1)
    ELSE RunListeners(w, n - 1)

\* this._onRequestsExhausted.fire()
fireRequestsExhausted(w) ==
    RunListeners([w EXCEPT !.last.fired = @ + 1], Len(w.runner.listeners))

\* ------------------------------------------------------------ marking

\* A UI call on a run object: which run, which item, which call, the
\* messages of a failure, and the process run whose event caused it.
Mark(run, item, kind, messages, ev) ==
    [run |-> run, item |-> item, kind |-> kind, messages |-> messages, ev |-> ev]

AddMark(w, m) == [w EXCEPT !.last.marks = @ \cup {m}]

\* A number of a stack frame: a value, or NaN.
NaN == [nan |-> TRUE, v |-> 0]
Num(n) == [nan |-> FALSE, v |-> n]

\* parseLocationFromStacks(testItem, stacks): the first frame of the item's
\* file whose line and column are numbers. The frame's file has its
\* slashes replaced by path.sep, the slash of a POSIX host.
RECURSIVE parseLocationFromStacks(_, _, _)
parseLocationFromStacks(w, testItem, stacks) ==
    LET sourceFilepath(stack) ==
            [i \in DOMAIN stack.file |->
                IF stack.file[i] = "/" THEN Slash ELSE stack.file[i]]
        next(stack) ==
            IF sourceFilepath(stack) # w.tree.items[testItem].filepath
               \/ stack.column.nan \/ stack.line.nan
            THEN parseLocationFromStacks(w, testItem, Tail(stacks))
            ELSE [def |-> TRUE, path |-> sourceFilepath(stack),
                  line |-> stack.line.v, column |-> stack.column.v]
    IN  IF stacks = <<>> THEN [def |-> FALSE, path |-> <<>>, line |-> 0, column |-> 0]
        ELSE next(Head(stacks))

\* testMessageForTestError with the column taken as the line is.
testMessageForTestErrorSameColumn(w, test, error) ==
    LET at(location) ==
            [message |-> error.message,
             location |-> IF location.def
                          THEN [location EXCEPT !.line = @ - 1, !.column = @]
                          ELSE location]
    IN  at(parseLocationFromStacks(w, test, error.stacks))

\* testMessageForTestError(testItem, error): the message and, if a frame of
\* the item's file was found, the position (line - 1, column - 1) in it.
testMessageForTestError(w, test, error) ==
    LET at(location) ==
            [message |-> error.message,
             location |-> IF location.def
                          THEN [location EXCEPT !.line = @ - 1, !.column = @ - 1]
                          ELSE location]
    IN  at(parseLocationFromStacks(w, test, error.stacks))

\* markSuite(testRun, test, result)
markSuite(w, testRun, test, result, ev) ==
    IF ~result.def THEN w
    ELSE IF result.state = "fail"
    THEN LET errors == IF result.errorsDef
                       THEN [j \in DOMAIN result.errors |-> StackOrMessage(result.errors[j])]
                       ELSE <<>>
         IN  IF Len(errors) = 0 THEN w
             ELSE [w EXCEPT !.tree.items[test].error = Text(Join(errors)),
                            !.last.errs = @ \cup {test}]
    ELSE w

\* markTestCase without the return on an empty error list.
markTestCaseFailsBare(w, testRun, test, result, ev) ==
    IF result.state = "fail"
    THEN LET errors == IF result.errorsDef
                       THEN [j \in DOMAIN result.errors |->
                               testMessageForTestError(w, test, result.errors[j])]
                       ELSE <<>>
         IN  AddMark(w, Mark(testRun, test, "failed", errors, ev))
    ELSE IF result.state = "pass"
    THEN AddMark(w, Mark(testRun, test, "passed", <<>>, ev))
    ELSE IF result.state \in {"todo", "skip"}
    THEN AddMark(w, Mark(testRun, test, "skipped", <<>>, ev))
    ELSE IF result.state \in {"only", "run"}
    THEN AddMark(w, Mark(testRun, test, "started", <<>>, ev))
    ELSE w

\* markTestCase(testRun, test, result)
markTestCase(w, testRun, test, result, ev) ==
    IF result.state = "fail"
    THEN LET errors == IF result.errorsDef
                       THEN [j \in DOMAIN result.errors |->
                               testMessageForTestError(w, test, result.errors[j])]
                       ELSE <<>>
         IN  IF Len(errors) = 0 THEN w
             ELSE AddMark(w, Mark(testRun, test, "failed", errors, ev))
    ELSE IF result.state = "pass"
    THEN AddMark(w, Mark(testRun, test, "passed", <<>>, ev))
    ELSE IF result.state \in {"todo", "skip"}
    THEN AddMark(w, Mark(testRun, test, "skipped", <<>>, ev))
    ELSE IF result.state \in {"only", "run"}
    THEN AddMark(w, Mark(testRun, test, "started", <<>>, ev))
    ELSE w

\* markResult without its check that the item is a test case.
markResultAnyItem(w, testRun, test, result, ev) ==
    IF ~result.def
    THEN AddMark(w, Mark(testRun, test, "started", <<>>, ev))
    ELSE markTestCase(w, testRun, test, result, ev)

\* markResult(testRun, test, result)
markResult(w, testRun, test, result, ev) ==
    LET isTestCase == w.tree.items[test].kind = "test"
    IN  IF ~isTestCase THEN markSuite(w, testRun, test, result, ev)
        ELSE IF ~result.def
        THEN AddMark(w, Mark(testRun, test, "started", <<>>, ev))
        ELSE markTestCase(w, testRun, test, result, ev)

\* ------------------------------------------------------- starting a run

\* A call suspended at an await: startTestRun at its wait for the previous
\* run, runTestItems at the exclusivity point.
Suspended(k, id, request, files, ev, n, defer) ==
    [k |-> k, id |-> id, request |-> request, files |-> files, ev |-> ev,
     n |-> n, defer |-> defer]

\* `await p` of a pending promise parks the call on it; `await undefined`
\* resumes the call in a microtask.
Await(w, c) ==
    IF c.defer # 0 /\ w.reqs[c.defer].defer = "pending"
    THEN [w EXCEPT !.host.waiters = Append(@, c)]
    ELSE [w EXCEPT !.host.microtasks = Append(@, c)]

RequestOf(w, id) ==
    [def |-> TRUE, id |-> id, agg |-> FALSE,
     includeDef |-> w.reqs[id].includeDef, include |-> w.reqs[id].include]

RECURSIVE FlatIncludes(_, _)
FlatIncludes(w, ids) ==
    IF ids = <<>> THEN <<>>
    ELSE (IF w.reqs[ids[1]].includeDef THEN w.reqs[ids[1]].include ELSE <<>>)
         \o FlatIncludes(w, Tail(ids))

\* createContinuousRequest()
createContinuousRequest(w) ==
    IF Len(w.runner.continuousRequests) = 0 THEN NoRequest
    ELSE LET include == FlatIncludes(w, w.runner.continuousRequests)
         IN  [def |-> TRUE, id |-> w.runner.continuousRequests[1], agg |-> TRUE,
              includeDef |-> Len(include) > 0, include |-> include]

\* isFileIncluded(file, include)
RECURSIVE isFileIncluded(_, _, _)
isFileIncluded(t, file, include) ==
    \E item \in include :
        IF t.items[item].kind = "folder"
        THEN isFileIncluded(t, file, Children(t, item))
        ELSE t.items[item].filepath = file

\* A set as an array, in some fixed order.
RECURSIVE SetToSeq(_)
SetToSeq(S) ==
    IF S = {} THEN <<>>
    ELSE LET x == CHOOSE y \in S : TRUE IN <<x>> \o SetToSeq(S \ {x})

\* startTestRun(files, primaryRequest): `ev` is the process run whose
\* watcher-rerun event led to the call and `n` counts the nested calls; the
\* run object it opens is named <<ev, n>>.
RECURSIVE startTestRun(_, _, _, _, _), startTestRunBody(_, _, _, _, _)
startTestRun(w, files, primaryRequest, ev, n) ==
    LET request == IF primaryRequest.def THEN primaryRequest
                   ELSE IF w.runner.nonContinuousRequest # 0
                   THEN RequestOf(w, w.runner.nonContinuousRequest)
                   ELSE createContinuousRequest(w)
    IN  IF ~request.def THEN w
        ELSE IF w.runner.testRun # NoRun
        THEN Await(w, Suspended("startTestRun", 0, request, files, ev, n,
                                w.runner.testRunDefer))
        ELSE startTestRunBody(w, files, request, ev, n)

startTestRunBody(w, files, request, ev, n) ==
    LET run == <<ev, n>>
        w0  == [w EXCEPT !.runner.testRun = run,
                         !.host.openRuns = @ \cup {run},
                         !.last.opened = @ \cup {run}]
        RECURSIVE each(_, _)
        each(ww, i) ==
            IF i > Len(files) THEN ww
            ELSE LET file == files[i]
                 IN  IF IsFolderSentinel(file)
                     THEN \* getTestFilesInFolder(file), then the nested call
                          LET r  == getOrCreateFolderTestItem(ww.tree, ApiW, file)
                              fs == {ww.tree.items[x].filepath :
                                        x \in getFolderFiles(r.t, r.item)}
                          IN  IF ~r.ok THEN ww
                              ELSE each(startTestRun([ww EXCEPT !.tree = r.t],
                                                     SetToSeq(fs), request, ev, n + 1),
                                        i + 1)
                     ELSE IF request.includeDef
                             /\ ~isFileIncluded(ww.tree, file, Range(request.include))
                     THEN each(ww, i + 1)
                     ELSE LET testItems == IF request.includeDef THEN Range(request.include)
                                           ELSE Range(getFileTestItems(ww.tree, file))
                              all == UNION {Descendants(ww.tree, x) : x \in testItems}
                          IN  each([ww EXCEPT !.last.enqueued = @ \cup all], i + 1)
    IN  each(w0, 1)

\* startTestRun resuming without its endTestRun(): the run it waited for
\* is left as it is.
startTestRunResumeKeepsRun(w, c) ==
    startTestRunBody(w, c.files, c.request, c.ev, c.n)

\* The rest of startTestRun after its await: endTestRun(), then the run.
startTestRunResume(w, c) ==
    startTestRunBody(endTestRun(w), c.files, c.request, c.ev, c.n)

\* ------------------------------------------------------------- requests

\* A run request of the editor and the state of its runTests/runCoverage
\* call: "enabling" (awaiting enableCoverage), "waiting" (at the exclusivity
\* point), "running" (awaiting runFiles), "watching" (continuous,
\* registered), "done", "cancelled" (continuous, deregistered), "failed"
\* (enableCoverage threw). `defer` is the state of the promise its
\* runTestItems call created; `rpcDone` says the process completed its command.
NewRequest(continuous, coverage, include) ==
    [st |-> "new", continuous |-> continuous, coverage |-> coverage,
     includeDef |-> include.def, include |-> include.items,
     defer |-> "none", cancelled |-> FALSE, rpcDone |-> FALSE]

NoInclude == [def |-> FALSE, items |-> <<>>]

\* The include sets of the requests the editor issues.
IncludeChoices == {NoInclude}

\* The include sets of continuous requests: none (watch all), the File Node
\* of FileA, the File Node of FileB.
WatchIncludes ==
    {NoInclude,
     [def |-> TRUE, items |-> <<FileRef(FileId(FileA, NoProject))>>],
     [def |-> TRUE, items |-> <<FileRef(FileId(FileB, NoProject))>>]}

\* runTestItems(request) from `this.testRunDefer = Promise.withResolvers()` on:
\* the command is sent to the process, which queues it.
runTestItemsBody(w, id) ==
    LET w1 == [w EXCEPT !.runner.testRunDefer = id,
                        !.reqs[id].defer = "pending",
                        !.reqs[id].st = "running",
                        !.proc.queue = Append(@, id)]
    IN  Call(w1, "runFiles")

\* runTestItems(request)
runTestItems(w, id) ==
    IF w.runner.testRunDefer # 0
    THEN [Await(w, Suspended("runTestItems", id, NoRequest, <<>>, 0, 0,
                             w.runner.testRunDefer))
            EXCEPT !.reqs[id].st = "waiting"]
    ELSE runTestItemsBody(w, id)

\* watchContinuousTests(request, token): registers the request and asks the
\* process to watch all files or the files of all registered include sets.
watchContinuousTests(w, id) ==
    LET w1 == [w EXCEPT !.runner.continuousRequests =
                            IF id \in Range(@) THEN @ ELSE Append(@, id),
                        !.reqs[id].st = "watching",
                        !.proc.watching = TRUE]
    IN  IF ~w.reqs[id].includeDef \/ Len(w.reqs[id].include) = 0
        THEN Call(w1, "watchTests")
        ELSE Call(w1, "watchTestsFiles")

\* runTests that takes the one-shot slot before it looks at `continuous`.
runTestsTakesSlot(w, id) ==
    IF w.reqs[id].continuous
    THEN watchContinuousTests([w EXCEPT !.runner.nonContinuousRequest = id], id)
    ELSE runTestItems([w EXCEPT !.runner.nonContinuousRequest = id], id)

\* runTests(request, token) up to its first suspension.
runTests(w, id) ==
    IF w.reqs[id].continuous THEN watchContinuousTests(w, id)
    ELSE runTestItems([w EXCEPT !.runner.nonContinuousRequest = id], id)

\* A call that returned: the runner holds the request no longer, and of its
\* record only the promise its runTestItems call created is still of use.
Settle(w, id, st) ==
    [w EXCEPT !.reqs[id] = [NewRequest(FALSE, FALSE, NoInclude)
                              EXCEPT !.st = st, !.defer = w.reqs[id].defer]]

\* The end of runTests once runTestItems returned.
runTestsReturn(w, id) ==
    fireRequestsExhausted(Settle([w EXCEPT !.runner.nonContinuousRequest = 0], id, "done"))

RemoveFrom(s, x) == LET keep(y) == y # x IN SelectSeq(s, keep)

\* The listener runCoverage registers on the token.
onCancelCoverage(w, id) == disableCoverage(w)

\* The listener of watchContinuousTests without its endTestRun().
onCancelContinuousKeepsRun(w, id) ==
    LET w1 == Settle([w EXCEPT !.runner.continuousRequests = RemoveFrom(@, id)],
                     id, "cancelled")
    IN  IF Len(w1.runner.continuousRequests) = 0
        THEN [Call(fireRequestsExhausted(w1), "unwatchTests") EXCEPT !.proc.watching = FALSE]
        ELSE w1

\* The listener watchContinuousTests registers on the token.
onCancelContinuous(w, id) ==
    LET w1 == Settle([w EXCEPT !.runner.continuousRequests = RemoveFrom(@, id)],
                     id, "cancelled")
    IN  IF Len(w1.runner.continuousRequests) = 0
        THEN endTestRun([Call(fireRequestsExhausted(w1), "unwatchTests")
                           EXCEPT !.proc.watching = FALSE])
        ELSE w1

\* The listener of runTests without its endTestRun().
onCancelOneShotKeepsRun(w, id) ==
    Call([w EXCEPT !.runner.nonContinuousRequest = 0], "cancelRun")

\* The listener runTests registers on the token of a one-shot request.
onCancelOneShot(w, id) ==
    Call([endTestRun(w) EXCEPT !.runner.nonContinuousRequest = 0], "cancelRun")

\* token.onCancellationRequested: the listeners in the order they were
\* registered: runCoverage's, then runTests' or watchContinuousTests'.
onCancellationRequested(w, id) ==
    LET w1 == [w EXCEPT !.reqs[id].cancelled = TRUE]
        w2 == IF w1.reqs[id].coverage THEN onCancelCoverage(w1, id) ELSE w1
    IN  IF w2.reqs[id].continuous THEN onCancelContinuous(w2, id)
        ELSE onCancelOneShot(w2, id)

\* ----------------------------------------------- events of the process

\* api.onWatcherRerun
onWatcherRerun(w, files, collecting, ev) ==
    IF collecting THEN w ELSE startTestRun(w, files, NoRequest, ev, 0)

\* onTaskUpdate without its check of this.testRun.
RECURSIVE onTaskUpdateAnyRun(_, _, _)
onTaskUpdateAnyRun(w, packs, ev) ==
    IF packs = <<>> THEN w
    ELSE LET test == getTestItemByTaskId(w.tree, packs[1][1])
         IN  IF test = NoRef THEN onTaskUpdateAnyRun(w, Tail(packs), ev)
             ELSE onTaskUpdateAnyRun(markResult(w, w.runner.testRun, test, packs[1][2], ev),
                                     Tail(packs), ev)

\* api.onTaskUpdate
RECURSIVE onTaskUpdate(_, _, _)
onTaskUpdate(w, packs, ev) ==
    IF packs = <<>> THEN w
    ELSE LET test == getTestItemByTaskId(w.tree, packs[1][1])
             testRun == w.runner.testRun
         IN  IF test = NoRef \/ testRun = NoRun
             THEN onTaskUpdate(w, Tail(packs), ev)
             ELSE onTaskUpdate(markResult(w, testRun, test, packs[1][2], ev),
                               Tail(packs), ev)

\* getTasks(files): every suite and test of the reports, flattened.
RECURSIVE getTasks(_)
getTasks(tasks) ==
    IF tasks = <<>> THEN <<>>
    ELSE <<tasks[1]>> \o getTasks(tasks[1].tasks) \o getTasks(Tail(tasks))

RECURSIVE AllTasks(_)
AllTasks(files) ==
    IF files = <<>> THEN <<>> ELSE getTasks(files[1].tasks) \o AllTasks(Tail(files))

RECURSIVE collectFiles(_, _)
collectFiles(t, files) ==
    IF files = <<>> THEN t ELSE collectFiles(collectFile(t, ApiW, files[1]), Tail(files))

RECURSIVE markCollected(_, _, _)
markCollected(w, tasks, ev) ==
    IF tasks = <<>> THEN w
    ELSE LET task == tasks[1]
             test == getTestItemByTaskId(w.tree, task.id)
             testRun == w.runner.testRun
         IN  IF test = NoRef \/ testRun = NoRun THEN markCollected(w, Tail(tasks), ev)
             ELSE IF task.mode \in {"skip", "todo"}
             THEN markCollected(AddMark(w, Mark(testRun, test, "skipped", <<>>, ev)),
                                Tail(tasks), ev)
             ELSE markCollected(markResult(w, testRun, test, task.result, ev),
                                Tail(tasks), ev)

\* api.onCollected
onCollected(w, files, collecting, ev) ==
    LET w1 == [w EXCEPT !.tree = Gc(collectFiles(@, files))]
    IN  IF collecting THEN w1 ELSE markCollected(w1, AllTasks(files), ev)

\* api.onFinished after its await: the files are marked on the run the
\* handler read at its start, then endTestRun().
RECURSIVE markFinished(_, _, _, _)
markFinished(w, testRun, files, ev) ==
    IF files = <<>> THEN w
    ELSE LET testItem == getTestItemByFileTask(w.tree, files[1])
         IN  IF testItem = NoRef THEN markFinished(w, testRun, Tail(files), ev)
             ELSE markFinished(markResult(w, testRun, testItem, files[1].result, ev),
                               testRun, Tail(files), ev)

onFinishedTail(w, testRun, files, unhandledError, ev) ==
    LET w1 == markFinished(w, testRun, files, ev)
        w2 == IF unhandledError
              THEN AddMark(w1, Mark(testRun, NoRef, "appendOutput", <<>>, ev))
              ELSE w1
    IN  endTestRun(w2)

\* api.onFinished up to its await of reportCoverage
onFinished(w, files, unhandledError, collecting, ev) ==
    LET testRun == w.runner.testRun
    IN  IF testRun = NoRun THEN w
        ELSE IF ~collecting
        THEN [w EXCEPT !.host.finPending =
                  Append(@, [testRun |-> testRun, files |-> files,
                             unhandledError |-> unhandledError, ev |-> ev])]
        ELSE onFinishedTail(w, testRun, files, unhandledError, ev)

\* The Finished handler without its try/catch around reportCoverage: a
\* failure ends the handler.
reportCoverageDoneUncaught(w, outcome) ==
    LET rest(w1, c) ==
            IF outcome = "failed" THEN w1
            ELSE IF outcome = "attached" /\ w1.runner.testRun # NoRun
            THEN onFinishedTail(
                     AddMark(w1, Mark(w1.runner.testRun, NoRef, "coverage", <<>>, c.ev)),
                     c.testRun, c.files, c.unhandledError, c.ev)
            ELSE onFinishedTail(w1, c.testRun, c.files, c.unhandledError, c.ev)
    IN  rest([w EXCEPT !.host.finPending = Tail(@)], Head(w.host.finPending))

\* reportCoverage(files) settled: no report, a report attached to the run
\* that is current now, or a failure, which the handler shows as a warning.
reportCoverageDone(w, outcome) ==
    LET c  == Head(w.host.finPending)
        w1 == [w EXCEPT !.host.finPending = Tail(@)]
        w2 == IF outcome = "attached" /\ w1.runner.testRun # NoRun
              THEN AddMark(w1, Mark(w1.runner.testRun, NoRef, "coverage", <<>>, c.ev))
              ELSE IF outcome = "failed" THEN [w1 EXCEPT !.last.warn = TRUE]
              ELSE w1
    IN  onFinishedTail(w2, c.testRun, c.files, c.unhandledError, c.ev)

\* ------------------------------------------------- inputs of the runner

\* The files of a watcher-rerun event: a changed file, or the folder
\* sentinel of a folder that was asked to run.
RerunFiles == {<<FileB>>, <<DirD \o <<Slash>>>>}

TaskUnknown == <<"u", "0">>

\* The report of FileB in a run: suite s1 with the passing test t1.
RunReport ==
    File(FileTaskId(FileB, NoProject), FileB, NoProject,
         <<Suite(TaskS1, <<Test(TaskT1, Location(10, 3), "run", Result("pass"))>>,
                 NoResult)>>,
         Result("pass"))

\* The (task id, result) packs of a task-update event.
PackChoices ==
    {<<<<TaskT1, Result("pass")>>>>,
     <<<<TaskUnknown, Result("pass")>>, <<TaskT1, ResultErr("fail", <<ErrE1>>)>>,
       <<TaskS1, ResultErr("fail", <<ErrE1>>)>>>>,
     <<<<TaskS1, Result("pass")>>, <<TaskS1, ResultErr("fail", <<>>)>>>>}

\* The files of a Finished event: FileB passed, or failed with an error.
FinishedFiles ==
    {<<RunReport>>, <<[RunReport EXCEPT !.result = ResultErr("fail", <<ErrE1>>)]>>}

CoverageOutcomes == {"none", "attached", "failed"}

\* What makes the process start a run: a queued command, a file change
\* while it watches, a collection pass.
RunSources == {"queue", "watch", "collect"}

\* Handlers run to completion: an event of the editor or of the process is
\* handled only once no resumed call is left to run.
Quiet == host.microtasks = <<>>

\* ---------------------------------------------- actions of the runner

\* runTests(request, token), issued by the editor
RunTests(max, kinds, includes) ==
    \E continuous \in kinds, include \in includes :
        /\ Quiet
        /\ Len(reqs) < max
        /\ Range(include.items) \subseteq DOMAIN tree.items
        /\ LET id == Len(reqs) + 1
               w0 == [Begin("runTests", id) EXCEPT
                        !.reqs = Append(@, NewRequest(continuous, FALSE, include))]
           IN  Commit(runTests(w0, id))

\* runCoverage(request, token) up to its await of enableCoverage
RunCoverage(max, kinds) ==
    \E continuous \in kinds, include \in IncludeChoices :
        /\ Quiet
        /\ Len(reqs) < max
        /\ LET id == Len(reqs) + 1
               w0 == [Begin("runCoverage", id) EXCEPT
                        !.reqs = Append(@, [NewRequest(continuous, TRUE, include)
                                              EXCEPT !.st = "enabling"])]
           IN  Commit(Call(w0, "enableCoverage"))

\* runCoverage once enableCoverage settled: on failure a warning and return,
\* otherwise the exhaustion listener, the token listener and runTests.
EnableCoverageDone ==
    \E id \in DOMAIN reqs, ok \in BOOLEAN :
        /\ Quiet
        /\ reqs[id].st = "enabling"
        /\ LET w0 == Begin("enableCoverageDone", id)
           IN  IF ok
               THEN Commit(runTests([w0 EXCEPT !.proc.coverageEnabled = TRUE,
                                               !.runner.listeners = Append(@, id)], id))
               ELSE Commit(Settle([w0 EXCEPT !.last.warn = TRUE], id, "failed"))

\* The editor cancels the token of a request whose call is under way.
Cancel ==
    \E id \in DOMAIN reqs :
        /\ Quiet
        /\ reqs[id].st \in {"waiting", "running", "watching"}
        /\ ~reqs[id].cancelled
        /\ Commit(onCancellationRequested(
                      Begin("cancel", [id |-> id, continuous |-> reqs[id].continuous,
                                       coverage |-> reqs[id].coverage]), id))

\* runFiles returned: the process completed the command of the request.
RpcReturn ==
    \E id \in DOMAIN reqs :
        /\ Quiet
        /\ reqs[id].st = "running"
        /\ reqs[id].rpcDone
        /\ Commit(runTestsReturn(Begin("runTestsReturn", id), id))

\* The process starts its next run: a queued command, a file change while
\* it watches, or a collection pass; it emits the watcher-rerun event.
ProcStart(max, sources) ==
    \E src \in sources, files \in RerunFiles :
        /\ Quiet
        /\ proc.phase = "idle"
        /\ proc.k < max
        /\ src = "queue" => proc.queue # <<>>
        /\ src = "watch" => proc.watching
        /\ src = "collect" => files = <<FileB>>
        /\ LET w0 == [BeginEvent("onWatcherRerun", files, proc.k + 1) EXCEPT
                        !.proc.k = @ + 1,
                        !.proc.phase = "running",
                        !.proc.collecting = (src = "collect"),
                        !.proc.cmd = IF src = "queue" THEN Head(proc.queue) ELSE 0,
                        !.proc.queue = IF src = "queue" THEN Tail(@) ELSE @]
           IN  Commit(onWatcherRerun(w0, files, src = "collect", proc.k + 1))

\* The process reports results of its current run.
ProcTaskUpdate ==
    \E packs \in PackChoices :
        /\ Quiet
        /\ proc.phase = "running"
        /\ Commit(onTaskUpdate(BeginEvent("onTaskUpdate", packs, proc.k), packs, proc.k))

\* The process reports the collected files of its current run.
ProcCollected ==
    /\ Quiet
    /\ proc.phase = "running"
    /\ Commit(onCollected(BeginEvent("onCollected", <<RunReport>>, proc.k), <<RunReport>>,
                          proc.collecting, proc.k))

\* The process reports the end of its current run.
ProcFinished(reports) ==
    \E unhandledError \in BOOLEAN, files \in reports :
        /\ Quiet
        /\ proc.phase = "running"
        /\ LET w0 == [BeginEvent("onFinished",
                                 [files |-> files, unhandledError |-> unhandledError],
                                 proc.k) EXCEPT
                        !.proc.phase = "idle",
                        !.reqs = IF proc.cmd = 0 THEN @
                                 ELSE [@ EXCEPT ![proc.cmd].rpcDone = TRUE]]
           IN  Commit(onFinished(w0, files, unhandledError, proc.collecting, proc.k))

\* The coverage report of a suspended Finished handler settles.
CoverageDone ==
    \E outcome \in CoverageOutcomes :
        /\ Quiet
        /\ host.finPending # <<>>
        /\ Commit(reportCoverageDone(
                      BeginEvent("onFinishedResumed",
                                 [outcome |-> outcome,
                                  files |-> Head(host.finPending).files,
                                  unhandledError |-> Head(host.finPending).unhandledError,
                                  testRun |-> Head(host.finPending).testRun],
                                 Head(host.finPending).ev),
                      outcome))

\* The next resumed call runs: startTestRun after its wait, or runTestItems
\* after the exclusivity point.
Microtask ==
    /\ host.microtasks # <<>>
    /\ LET c  == Head(host.microtasks)
           w0 == [BeginEvent(c.k, [id |-> c.id, defer |-> c.defer, n |-> c.n], c.ev)
                    EXCEPT !.host.microtasks = Tail(@)]
       IN  IF c.k = "startTestRun"
           THEN Commit(startTestRunResume(w0, c))
           ELSE Commit(runTestItemsBody(w0, c.id))

\* The runner is constructed for the api of a single-root workspace whose
\* tree was reset.
Init ==
    /\ tree = reset(EmptyTree, <<RootW>>)
    /\ last = Effects("init", <<>>)
    /\ RunnerInit

Next ==
    \/ RunTests(MaxRequests, BOOLEAN, IncludeChoices)
    \/ RunCoverage(MaxRequests, BOOLEAN)
    \/ EnableCoverageDone
    \/ Cancel
    \/ RpcReturn
    \/ ProcStart(MaxProcRuns, RunSources)
    \/ ProcTaskUpdate
    \/ ProcCollected
    \/ ProcFinished({<<RunReport>>})
    \/ CoverageDone
    \/ Microtask

Spec == Init /\ [][Next]_vars

\* The runs of a runner whose process starts up to MaxWaitingRuns runs, so
\* that two startTestRun calls can wait for the same run to end; the task
\* events, which open and end no run, are left out.
NextRuns ==
    \/ RunTests(MaxRequests, BOOLEAN, IncludeChoices)
    \/ RunCoverage(MaxRequests, BOOLEAN)
    \/ EnableCoverageDone
    \/ Cancel
    \/ RpcReturn
    \/ ProcStart(MaxWaitingRuns, RunSources)
    \/ ProcFinished({<<RunReport>>})
    \/ CoverageDone
    \/ Microtask

SpecRuns == Init /\ [][NextRuns]_vars

\* Up to MaxOverlap one-shot requests of runTests, issued while earlier ones
\* are in flight.
NextOverlap ==
    \/ RunTests(MaxOverlap, {FALSE}, IncludeChoices)
    \/ Cancel
    \/ RpcReturn
    \/ ProcStart(MaxProcRuns, RunSources)
    \/ ProcFinished({<<RunReport>>})
    \/ CoverageDone
    \/ Microtask

SpecOverlap == Init /\ [][NextOverlap]_vars

\* The runs whose Finished event reports FileB as passed or as failed, with
\* the coverage report of each run fetched, attached or failing.
SpecCoverage ==
    Init /\ [][\/ RunTests(MaxRequests, BOOLEAN, IncludeChoices)
               \/ Cancel
               \/ RpcReturn
               \/ ProcStart(MaxProcRuns, RunSources)
               \/ ProcCollected
               \/ ProcFinished(FinishedFiles)
               \/ CoverageDone
               \/ Microtask]_vars

\* Two one-shot requests and a process that runs the queued commands and
\* nothing else. The process and the JS runtime make progress: a queued
\* command is started, a started run finishes, a coverage report settles,
\* a returned call and a resumed call run. The editor need not act.
SpecLive ==
    /\ Init
    /\ [][\/ RunTests(MaxRequests, {FALSE}, IncludeChoices)
          \/ Cancel
          \/ RpcReturn
          \/ ProcStart(MaxProcRuns, {"queue"})
          \/ ProcFinished({<<RunReport>>})
          \/ CoverageDone
          \/ Microtask]_vars
    /\ WF_vars(RpcReturn)
    /\ WF_vars(ProcStart(MaxProcRuns, {"queue"}))
    /\ WF_vars(ProcFinished({<<RunReport>>}))
    /\ WF_vars(CoverageDone)
    /\ WF_vars(Microtask)

\* Continuous requests with and without include sets over a tree whose
\* files were discovered; the process runs the files that change.
SpecWatch ==
    Init /\ [][\/ TreeWatch(TestFiles)
               \/ RunTests(MaxRequests, {TRUE}, WatchIncludes)
               \/ Cancel
               \/ ProcStart(MaxProcRuns, {"watch"})
               \/ ProcFinished({<<RunReport>>})
               \/ CoverageDone
               \/ Microtask]_vars

\* ------------------------------------------------- markResult by itself

\* The results markResult is given: absent, or one of the runner's states
\* or a state it does not know, with no error list or with 0, 1 or 2 errors.
MarkStates == {"fail", "pass", "todo", "skip", "only", "run", "queued"}

\* The parsed stacks of an error: frames of another file and of FileB, with
\* and without numbers for line and column.
StackChoices ==
    {<<[file |-> FileA, line |-> Num(10), column |-> Num(3)],
       [file |-> FileB, line |-> NaN, column |-> Num(3)],
       [file |-> FileB, line |-> Num(10), column |-> NaN],
       [file |-> FileB, line |-> Num(10), column |-> Num(3)],
       [file |-> FileB, line |-> Num(20), column |-> Num(5)]>>,
     <<[file |-> FileA, line |-> Num(10), column |-> Num(3)],
       [file |-> FileB, line |-> NaN, column |-> NaN]>>}

MarkErrors ==
    {<<>>, <<ErrE1>>, <<ErrE1, ErrE2>>}
        \cup {<<[ErrE1 EXCEPT !.stacks = stacks]>> : stacks \in StackChoices}

MarkResults ==
    {NoResult} \cup {Result(st) : st \in MarkStates}
               \cup {ResultErr(st, errors) : st \in MarkStates, errors \in MarkErrors}

\* The runner with the request `continuous` watching, the report of FileB
\* collected and the run of the first watcher-rerun event open.
MarkWorld ==
    LET t0 == collectFile(reset(EmptyTree, <<RootW>>), ApiW, RunReport)
        w0 == [tree |-> Gc(t0), runner |-> Runner0, host |-> Host0,
               proc |-> [Proc0 EXCEPT !.k = 1, !.phase = "running"],
               reqs |-> <<NewRequest(TRUE, FALSE, NoInclude)>>,
               last |-> Effects("init", <<>>)]
    IN  onWatcherRerun(watchContinuousTests(w0, 1), <<FileB>>, FALSE, 1)

MarkItems ==
    {FileRef(FileId(FileB, NoProject)), TaskRef(TaskS1), TaskRef(TaskT1)}

MarkInit ==
    \E item \in MarkItems, result \in MarkResults :
        /\ tree = MarkWorld.tree
        /\ runner = MarkWorld.runner
        /\ host = MarkWorld.host
        /\ proc = MarkWorld.proc
        /\ reqs = MarkWorld.reqs
        /\ last = Effects("init", [item |-> item, result |-> result])

\* markResult(this.testRun, item, result), called by an event handler
MarkResultCall ==
    /\ last.op = "init"
    /\ Commit(markResult(BeginEvent("markResult", last.arg, proc.k),
                         runner.testRun, last.arg.item, last.arg.result, proc.k))

NextMark == MarkResultCall

SpecMark == MarkInit /\ [][NextMark]_vars

\* ---------------------------------------------------- claims on the runner

\* C1: in every reachable state at most one run object created by the
\* runner is open, and it is the runner's current run.
C1_AtMostOneOpenRun ==
    /\ Cardinality(host.openRuns) <= 1
    /\ host.openRuns \subseteq {runner.testRun}

\* A startTestRun call that waited on a completion signal resumed after
\* another call that waited on the same signal: it ended the run the other
\* had just opened and opened its own.
C1_SecondWaiterResumed ==
    /\ last.op = "startTestRun"
    /\ last.arg.defer # 0
    /\ last.ended # {}
    /\ last.opened # {}
    /\ host.openRuns = last.opened

\* C3: a run is closed only by the Finished handler or by a cancellation;
\* a starting run closes no run whose Finished event was not received.
C3_RunsEndOnFinishedOrCancel ==
    \A r \in last.ended :
        \/ last.op \in {"onFinished", "onFinishedResumed", "cancel"}
        \/ \E i \in DOMAIN host.finPending : host.finPending[i].testRun = r

\* C4: one-shot requests are serialized: at no time are the completion
\* signals of two dispatched requests unresolved.
C4_OneUnresolvedSignal ==
    Cardinality({i \in DOMAIN reqs : reqs[i].defer = "pending"}) <= 1

TaskEvents == {"onTaskUpdate", "onCollected", "onFinished", "onFinishedResumed"}

\* C5: every UI mark and every run-end done by the handler of a task-update,
\* collected or finished event lands on a run opened for the process run
\* that emitted the event.
C5_EventsLandOnTheirRun ==
    last.op \in TaskEvents =>
        /\ \A m \in last.marks : m.run[1] = last.ev
        /\ \A r \in last.ended : r[1] = last.ev

\* C7: cancelling the last continuous request fires the exhaustion signal
\* once, calls unwatchTests, ends the open run and, if the request came
\* through runCoverage, leaves coverage disabled; cancelling a continuous
\* request while others remain fires no signal and ends no run.
C7_CancelLastContinuous ==
    (last.op = "cancel" /\ last.arg.continuous) =>
        IF runner.continuousRequests = <<>>
        THEN /\ last.fired = 1
             /\ "unwatchTests" \in Range(last.api)
             /\ last.hadRun # NoRun => last.ended = {last.hadRun}
             /\ host.openRuns = {}
             /\ runner.testRun = NoRun
             /\ last.arg.coverage =>
                    "disableCoverage" \in Range(last.api) /\ ~proc.coverageEnabled
        ELSE /\ last.fired = 0
             /\ last.ended = {}

\* The last continuous request, which came through runCoverage, was
\* cancelled while a run was open.
C7_LastCoverageRequestCancelled ==
    /\ last.op = "cancel"
    /\ last.arg.continuous
    /\ last.arg.coverage
    /\ runner.continuousRequests = <<>>
    /\ last.hadRun # NoRun

\* The UI mark a (task id, result) pair of a task-update event is due on a
\* test-case node.
DueMark(result) ==
    IF ~result.def THEN "started"
    ELSE IF result.state = "pass" THEN "passed"
    ELSE IF result.state = "fail" /\ result.errorsDef /\ Len(result.errors) > 0
    THEN "failed"
    ELSE "none"

\* C8: a task-update event handled while no run is open makes no UI mark,
\* sets no node's error and opens no run; with a run open, a pair whose task
\* id has no node is skipped and the other pairs are marked.
C8_TaskUpdateWithoutRun ==
    last.op = "onTaskUpdate" =>
        /\ last.hadRun = NoRun =>
               /\ last.marks = {}
               /\ last.errs = {}
               /\ last.opened = {}
               /\ runner.testRun = NoRun
        /\ \A m \in last.marks : m.item # NoRef /\ m.run = last.hadRun
        /\ last.hadRun # NoRun =>
               \A i \in DOMAIN last.arg :
                   LET test == getTestItemByTaskId(tree, last.arg[i][1])
                   IN  (test # NoRef /\ tree.items[test].kind = "test"
                            /\ DueMark(last.arg[i][2]) # "none") =>
                           \E m \in last.marks :
                               m.item = test /\ m.kind = DueMark(last.arg[i][2])

\* A task-update event with a pair for the node of t1 was handled while no
\* run was open.
C8_UpdateDropped ==
    /\ last.op = "onTaskUpdate"
    /\ last.hadRun = NoRun
    /\ \E i \in DOMAIN last.arg : getTestItemByTaskId(tree, last.arg[i][1]) # NoRef

\* C9: the cancellation of a one-shot request leaves no run open, resolves
\* the completion signal, clears the one-shot slot and calls cancelRun; a
\* task-update, collected or finished event that arrives while no run is
\* open makes no UI mark.
C9_CancelOneShot ==
    /\ (last.op = "cancel" /\ ~last.arg.continuous) =>
           /\ runner.testRun = NoRun
           /\ host.openRuns = {}
           /\ last.hadRun # NoRun => last.ended = {last.hadRun}
           /\ runner.testRunDefer = 0
           /\ last.hadDefer # 0 => reqs[last.hadDefer].defer = "resolved"
           /\ runner.nonContinuousRequest = 0
           /\ "cancelRun" \in Range(last.api)
    /\ (last.op \in {"onTaskUpdate", "onCollected", "onFinished"} /\ last.hadRun = NoRun) =>
           last.marks = {}

\* The process still runs the command of a cancelled one-shot request, and
\* a task update of it arrived after the run was closed.
C9_LateUpdateAfterCancel ==
    /\ last.op = "onTaskUpdate"
    /\ last.hadRun = NoRun
    /\ proc.cmd # 0
    /\ reqs[proc.cmd].cancelled
    /\ \E i \in DOMAIN last.arg : getTestItemByTaskId(tree, last.arg[i][1]) # NoRef

\* C10: for a test-case node and an open run, markResult makes one UI call
\* or none: failed with n messages for `fail` with n >= 1 errors, nothing
\* for `fail` without errors, passed for `pass`, skipped for `todo` and
\* `skip`, started for `only` and `run`, nothing for any other state.
C10_MarkPerState ==
    (last.op = "markResult" /\ tree.items[last.arg.item].kind = "test"
        /\ last.arg.result.def) =>
        LET result == last.arg.result
            n == IF result.errorsDef THEN Len(result.errors) ELSE 0
            One(kind) ==
                \E m \in last.marks :
                    /\ last.marks = {m}
                    /\ m.run = runner.testRun
                    /\ m.item = last.arg.item
                    /\ m.kind = kind
                    /\ Len(m.messages) = (IF kind = "failed" THEN n ELSE 0)
        IN  /\ runner.testRun \in host.openRuns
            /\ (result.state = "fail" /\ n >= 1) => One("failed")
            /\ (result.state = "fail" /\ n = 0) => last.marks = {}
            /\ result.state = "pass" => One("passed")
            /\ result.state \in {"todo", "skip"} => One("skipped")
            /\ result.state \in {"only", "run"} => One("started")
            /\ result.state \notin {"fail", "pass", "todo", "skip", "only", "run"} =>
                   last.marks = {}

\* markResult was called for the test case t1 with a `fail` result that
\* carries two errors.
C10_FailedWithTwoErrors ==
    /\ last.op = "markResult"
    /\ last.arg.item = TaskRef(TaskT1)
    /\ last.arg.result.state = "fail"
    /\ Len(last.arg.result.errors) = 2
    /\ \E m \in last.marks : m.kind = "failed" /\ Len(m.messages) = 2

\* The results an event carries for the node `test`: the pairs of a
\* task-update event, the task results of the collected files, the file
\* results of the finished files.
ResultsFor(test) ==
    IF last.op = "onTaskUpdate"
    THEN {last.arg[i][2] : i \in {j \in DOMAIN last.arg :
                                    getTestItemByTaskId(tree, last.arg[j][1]) = test}}
    ELSE IF last.op = "onCollected"
    THEN {x.result : x \in {y \in Range(AllTasks(last.arg)) :
                               getTestItemByTaskId(tree, y.id) = test}}
    ELSE {file.result : file \in {x \in Range(last.arg.files) :
                                     getTestItemByFileTask(tree, x) = test}}

\* C11: no handler of a task-update, collected or finished event marks a
\* node that is not a test case as passed or failed; a task update that
\* reports t1 as `fail` with one error marks t1 failed and makes no UI call
\* on s1; the handler writes the error of such a node only if a result it
\* carries for the node is `fail` with at least one error.
C11_SuitesGetNoPassFail ==
    last.op \in TaskEvents =>
        /\ \A m \in last.marks :
               m.kind \in {"passed", "failed"} => tree.items[m.item].kind = "test"
        /\ (last.op = "onTaskUpdate" /\ last.hadRun # NoRun
               /\ <<TaskT1, ResultErr("fail", <<ErrE1>>)>> \in Range(last.arg)
               /\ Has(tree.flatTestItems, TaskT1)) =>
               /\ {m.item : m \in {x \in last.marks : x.kind = "failed"}}
                      = {TaskRef(TaskT1)}
               /\ \A m \in last.marks : m.item # TaskRef(TaskS1)
        /\ \A test \in last.errs :
               /\ tree.items[test].kind # "test"
               /\ \E result \in ResultsFor(test) :
                      /\ result.def /\ result.state = "fail"
                      /\ result.errorsDef /\ Len(result.errors) >= 1

\* A task update reported t1 and its suite s1 as failed with one error each
\* while a run was open: t1 was marked failed, s1 only got its error text.
C11_TestFailedSuiteUnmarked ==
    /\ last.op = "onTaskUpdate"
    /\ last.hadRun # NoRun
    /\ \E m \in last.marks :
           m.item = TaskRef(TaskT1) /\ m.kind = "failed" /\ Len(m.messages) = 1
    /\ last.errs = {TaskRef(TaskS1)}
    /\ tree.items[TaskRef(TaskS1)].kind = "suite"

\* ------------------------------------------------------ claims on the tree

\* The (project, file) pair a discovery or a collection was called for.
PairOf(op, arg) ==
    IF op = "collectFile" THEN <<arg.projectName, arg.filepath>> ELSE arg

\* C12: the File Node a discovery or a collection obtained for a (path,
\* project) pair is a node of that path, listed under that path, and for any
\* two distinct pairs getOrCreateFileTestItem, called for one and then for
\* the other, returns two distinct nodes.
C12_OneFileNodePerPair ==
    /\ last.op \in {"watchTestFilesInWorkspace", "collectFile"} =>
           LET pf == PairOf(last.op, last.arg)
               r  == getOrCreateFileTestItem(tree, ApiOf(pf[2]), pf[1], pf[2])
           IN  /\ r.ok
               /\ tree.items[r.item].filepath = normalize(pf[2])
               /\ r.item \in Range(getFileTestItems(tree, pf[2]))
    /\ Has(tree.folderItems, RootW) =>
           \A pf \in FilePairs : \A pg \in FilePairs \ {pf} :
               getOrCreateFileTestItem(
                   getOrCreateFileTestItem(tree, ApiW, pf[1], pf[2]).t,
                   ApiW, pg[1], pg[2]).item
               # getOrCreateFileTestItem(tree, ApiW, pf[1], pf[2]).item

\* The nodes below `parent` are exactly the reported tasks, level by level.
RECURSIVE NodesMatch(_, _, _)
NodesMatch(t, parent, tasks) ==
    /\ Children(t, parent) = {TaskRef(id) : id \in TaskIds(tasks)}
    /\ \A i \in DOMAIN tasks : NodesMatch(t, TaskRef(tasks[i].id), tasks[i].tasks)

\* C2: after collectFile for a file, whatever was collected for it before,
\* the suite/test nodes under the File Node are, at every nesting level,
\* exactly the tasks of that report, and collecting the same report again
\* leaves the tree unchanged.
C2_NodesEqualLatestReport ==
    last.op = "collectFile" =>
        LET file == last.arg
        IN  /\ NodesMatch(tree, FileRef(FileId(file.filepath, file.projectName)), file.tasks)
            /\ Gc(collectFile(tree, ApiOf(file.filepath), file)) = tree

WorkspaceRoots == {RootW, RootV}

\* C6: after the watcher reported the deletion of a path, no File Node of
\* that path is left in the by-path index, in the per-(file, project) index
\* or among any item's children, and no folder other than a workspace root
\* is left without children.
C6_DeletePrunesFileAndEmptyFolders ==
    last.op = "onDidDelete" =>
        LET p == normalize(last.arg)
            IsFileOfP(r) == tree.items[r].kind = "file" /\ tree.items[r].filepath = p
        IN  /\ ~Has(tree.testItemsByFile, p)
            /\ \A id \in DOMAIN tree.fileItems : ~IsFileOfP(tree.fileItems[id])
            /\ \A r \in DOMAIN tree.items : \A c \in Children(tree, r) : ~IsFileOfP(c)
            /\ \A q \in DOMAIN tree.folderItems :
                   q \in WorkspaceRoots \/ Children(tree, tree.folderItems[q]) # {}

\* How often an item occurs in a list of items.
Occurrences(items, item) == Cardinality({i \in DOMAIN items : items[i] = item})

\* C13: the nodes of one path in two projects are distinct, both are listed
\* under the path, each once, and a request for the path in one project
\* returns the node of that project, not the other's.
C13_NodesOfTwoProjects ==
    LET nodeA == FileRef(FileId(FileB, NoProject))
        nodeB == FileRef(FileId(FileB, ProjectP))
        hasA  == Has(tree.fileItems, FileId(FileB, NoProject))
        hasB  == Has(tree.fileItems, FileId(FileB, ProjectP))
        items == getFileTestItems(tree, FileB)
    IN  /\ \A f \in DOMAIN tree.testItemsByFile :
               \A item \in Range(tree.testItemsByFile[f]) :
                   Occurrences(tree.testItemsByFile[f], item) = 1
        /\ hasA => tree.fileItems[FileId(FileB, NoProject)] = nodeA
                    /\ Occurrences(items, nodeA) = 1
        /\ hasB => tree.fileItems[FileId(FileB, ProjectP)] = nodeB
                    /\ Occurrences(items, nodeB) = 1
        /\ nodeA # nodeB
        /\ (hasA /\ hasB) =>
               /\ getOrCreateFileTestItem(tree, ApiW, NoProject, FileB).item = nodeA
               /\ getOrCreateFileTestItem(tree, ApiW, ProjectP, FileB).item = nodeB
               /\ Len(items) = 2

\* The file of project p was discovered again after the node of the same
\* path in the unnamed project had been added behind it.
C13_DiscoveryRepeated ==
    /\ last.op = "watchTestFilesInWorkspace"
    /\ last.arg = <<ProjectP, FileB>>
    /\ getFileTestItems(tree, FileB)
           = <<FileRef(FileId(FileB, ProjectP)), FileRef(FileId(FileB, NoProject))>>

\* The folders from `folder` up to the workspace root `root`.
RECURSIVE Chain(_, _)
Chain(folder, root) ==
    IF folder = root \/ dirname(folder) = folder THEN {folder}
    ELSE {folder} \cup Chain(dirname(folder), root)

\* C14: after getOrCreateFolderTestItem(api, path) every folder item from
\* path up to the workspace root has the api's tag, and every folder item
\* still has, once each, the tags it had before.
C14_TagOnWholeChain ==
    last.op = "getOrCreateFolderTestItem" =>
        /\ \A f \in Chain(last.arg.folder, last.arg.api.workspaceFolder) :
               /\ Has(tree.folderItems, f)
               /\ last.arg.api.tag \in Range(tree.items[tree.folderItems[f]].tags)
        /\ \A r \in DOMAIN last.arg.before :
               /\ Range(last.arg.before[r]) \subseteq Range(tree.items[r].tags)
               /\ \A tag \in Range(tree.items[r].tags) :
                      Occurrences(tree.items[r].tags, tag) = 1

\* C15: the range of a node is the point (line - 1, column) of its task's
\* location; the location of a failure message is (line - 1, column - 1) of
\* the first frame of the error whose file is the node's file and whose
\* line and column are numbers, and absent when there is no such frame.
C15_LocationConversion ==
    /\ \A task \in Range(AllTasks(<<RunReport>>)) :
           task.location.def =>
               tree.items[TaskRef(task.id)].range =
                   [def |-> TRUE, line |-> task.location.line - 1,
                    column |-> task.location.column]
    /\ last.op = "markResult" =>
           \A m \in last.marks :
               m.kind = "failed" =>
                   \A i \in DOMAIN m.messages :
                       LET stacks == last.arg.result.errors[i].stacks
                           valid  == {j \in DOMAIN stacks :
                                        /\ stacks[j].file = tree.items[m.item].filepath
                                        /\ ~stacks[j].line.nan
                                        /\ ~stacks[j].column.nan}
                           first  == CHOOSE j \in valid : \A k \in valid : j <= k
                       IN  IF valid = {} THEN ~m.messages[i].location.def
                           ELSE m.messages[i].location =
                                    [def |-> TRUE, path |-> stacks[first].file,
                                     line |-> stacks[first].line.v - 1,
                                     column |-> stacks[first].column.v - 1]

\* The task location {10, 3} of t1 is stored as {9, 3}, and the failure of
\* t1 whose first valid frame in its file is {10, 3} is attached at {9, 2}.
C15_SameInputTwoPoints ==
    /\ last.op = "markResult"
    /\ tree.items[TaskRef(TaskT1)].range = [def |-> TRUE, line |-> 9, column |-> 3]
    /\ \E m \in last.marks :
           /\ m.item = TaskRef(TaskT1)
           /\ m.kind = "failed"
           /\ Len(last.arg.result.errors[1].stacks) = 5
           /\ m.messages[1].location =
                  [def |-> TRUE, path |-> FileB, line |-> 9, column |-> 2]

\* C16: when the coverage report of a finished run fails, the handler shows
\* a warning and goes on: each finished file with a node is marked from
\* its result, the unhandled error is appended to the handler's run, the
\* current run is ended and the completion signal is resolved.
C16_CoverageFailureIsAWarning ==
    (last.op = "onFinishedResumed" /\ last.arg.outcome = "failed") =>
        /\ last.warn
        /\ \A m \in last.marks : m.kind # "coverage"
        /\ \A i \in DOMAIN last.arg.files :
               LET file == last.arg.files[i]
                   testItem == getTestItemByFileTask(tree, file)
               IN  (testItem # NoRef /\ file.result.state = "fail"
                        /\ file.result.errorsDef /\ Len(file.result.errors) > 0) =>
                       /\ testItem \in last.errs
                       /\ tree.items[testItem].error =
                              Text(Join([j \in DOMAIN file.result.errors |->
                                           StackOrMessage(file.result.errors[j])]))
        /\ last.arg.unhandledError =>
               Mark(last.arg.testRun, NoRef, "appendOutput", <<>>, last.ev) \in last.marks
        /\ runner.testRun = NoRun
        /\ host.openRuns = {}
        /\ last.hadRun # NoRun => last.ended = {last.hadRun}
        /\ runner.testRunDefer = 0
        /\ last.hadDefer # 0 => reqs[last.hadDefer].defer = "resolved"

\* The coverage report failed for the run of a dispatched request whose
\* Finished event reported FileB as failed and an unhandled error.
C16_FailedCoverageRunEnded ==
    /\ last.op = "onFinishedResumed"
    /\ last.arg.outcome = "failed"
    /\ last.arg.unhandledError
    /\ last.errs = {FileRef(FileId(FileB, NoProject))}
    /\ last.ended = {last.arg.testRun}
    /\ last.hadDefer # 0

\* C17: once enableCoverage settled, with or without a failure, the request
\* of runCoverage is in the hands of runTests: it waits at the exclusivity
\* point, its command was sent to the process, or it is registered for
\* watching; a failure shows a warning.
C17_RunGoesOnWithoutCoverage ==
    last.op = "enableCoverageDone" =>
        /\ ~proc.coverageEnabled => last.warn
        /\ \/ reqs[last.arg].st = "waiting"
           \/ reqs[last.arg].st = "running" /\ "runFiles" \in Range(last.api)
           \/ reqs[last.arg].st = "watching"
                  /\ last.arg \in Range(runner.continuousRequests)

\* C18: after collectFile the File Node's error is the joined stacks or
\* messages if the report has at least one file-level error, else the "No
\* tests found" text if the report has no top-level task, else empty; the
\* node cannot resolve children any more.
C18_FileErrorAfterCollect ==
    last.op = "collectFile" =>
        LET file   == last.arg
            node   == tree.items[tree.fileItems[FileId(file.filepath, file.projectName)]]
            errors == IF file.result.def /\ file.result.errorsDef
                      THEN file.result.errors ELSE <<>>
        IN  /\ ~node.canResolveChildren
            /\ IF Len(errors) >= 1
               THEN node.error = Text(Join([j \in DOMAIN errors |->
                                              StackOrMessage(errors[j])]))
               ELSE IF Len(file.tasks) = 0
               THEN node.error = Text(NoTestsFound(file.filepath))
               ELSE ~node.error.def \/ node.error.text = <<>>

\* The workspace roots of the last reset: the controller's items are the
\* root folders of a multi-root workspace, and the loader item and file
\* and folder items of the single root /w otherwise.
RegisteredRoots ==
    IF tree.controllerItems = {} THEN {}
    ELSE IF FolderRef(RootV) \in tree.controllerItems THEN {RootW, RootV}
    ELSE {RootW}

\* The folder paths at and below a root that calls are made for.
FoldersUnder(root) ==
    {root, root \o <<Slash, "d">>, root \o <<Slash, "d", Slash>>,
     root \o <<Slash, "d", Slash, "e">>}

\* C19: in every tree reached by resets, discoveries, collections and
\* deletions each registered root is in the folder index, dirname strictly
\* shortens every path but "/", and getOrCreateFolderTestItem reaches a
\* known folder for every path at or below a registered root.
C19_FolderLookupTerminates ==
    \A root \in RegisteredRoots :
        /\ Has(tree.folderItems, root)
        /\ \A folder \in FoldersUnder(root) :
               /\ \A f \in Chain(folder, root) :
                      dirname(f) = f \/ Len(dirname(f)) < Len(f)
               /\ getOrCreateFolderTestItem(tree, ApiOf(folder), folder).ok

\* A deletion pruned folder /w/d from the index of a multi-root workspace;
\* a call for /w/d then stops at the root /w and creates the folder anew.
C19_FolderPrunedRootKept ==
    /\ last.op = "onDidDelete"
    /\ RegisteredRoots = {RootW, RootV}
    /\ ~Has(tree.folderItems, DirD)
    /\ Has(getOrCreateFolderTestItem(tree, ApiW, DirD).t.folderItems, DirD)

\* No handler is left to run and the process has nothing left to do: no
\* resumed call, no suspended Finished handler, no run in progress, no queued
\* command, no call of runFiles about to return. Only the editor can act.
AtRest ==
    /\ host.microtasks = <<>>
    /\ host.finPending = <<>>
    /\ proc.phase = "idle"
    /\ proc.queue = <<>>
    /\ \A id \in DOMAIN reqs : reqs[id].st # "running"

\* C20: a completion signal created by runTestItems is eventually resolved,
\* and a request waiting at the exclusivity point eventually proceeds: once
\* the process and the runner have nothing left to do, no signal is pending
\* and no request waits.
C20_NoSignalPendingAtRest ==
    AtRest =>
        \A id \in DOMAIN reqs :
            /\ reqs[id].defer # "pending"
            /\ reqs[id].st # "waiting"

\* The items attached to the tree: the controller's items and everything
\* below them, children by children.
RECURSIVE AttachedBelow(_, _)
AttachedBelow(t, S) ==
    LET N == S \cup UNION {t.items[r].children : r \in S}
    IN  IF N = S THEN S ELSE AttachedBelow(t, N)

\* C21: every node the task-id index resolves an id to is attached to the
\* tree: an id that disappeared from a re-collection, or whose file was
\* deleted, is resolved to no node any more.
C21_TaskIndexResolvesAttached ==
    \A taskId \in DOMAIN tree.flatTestItems :
        getTestItemByTaskId(tree, taskId) \in AttachedBelow(tree, tree.controllerItems)

\* C22: a one-shot request cancelled while it waits at the exclusivity point
\* sends no run command afterwards, and its cancellation ends no run: the
\* open run belongs to the request it waits behind.
C22_CancelledWaiterStaysOut ==
    /\ (last.op = "cancel" /\ ~last.arg.continuous /\ reqs[last.arg.id].st = "waiting") =>
           last.ended = {}
    /\ (last.op = "runTestItems" /\ reqs[last.arg.id].cancelled) =>
           "runFiles" \notin Range(last.api)

\* The requests that came through runCoverage and are still active: their
\* call is under way and their token is not cancelled.
ActiveCoverageRequests ==
    {id \in DOMAIN reqs :
        /\ reqs[id].coverage
        /\ reqs[id].st \in {"waiting", "running", "watching"}
        /\ ~reqs[id].cancelled}

\* C23: coverage is enabled in the process as long as a request started
\* through runCoverage is active, and the cancellation of the only request
\* ever issued calls disableCoverage at most once.
C23_CoverageKeptWhileActive ==
    /\ ActiveCoverageRequests # {} => proc.coverageEnabled
    /\ (last.op = "cancel" /\ Len(reqs) = 1) =>
           Occurrences(last.api, "disableCoverage") <= 1

\* The continuous set holds a request with no include set.
WatchAllRegistered ==
    \E i \in DOMAIN runner.continuousRequests :
        ~reqs[runner.continuousRequests[i]].includeDef

\* C24: while a request without include set is in the continuous set, the
\* run a watcher-rerun opens enqueues the nodes of every changed file, a
\* watch sent to the process is a watch of all files, and the aggregate
\* request has an include set only if every member request has one.
C24_WatchAllSeesEveryFile ==
    /\ (last.op = "onWatcherRerun" /\ last.opened # {} /\ WatchAllRegistered
            /\ runner.nonContinuousRequest = 0) =>
           \A i \in DOMAIN last.arg :
               ~IsFolderSentinel(last.arg[i]) =>
                   Range(getFileTestItems(tree, last.arg[i])) \subseteq last.enqueued
    /\ (last.op = "runTests" /\ WatchAllRegistered) =>
           "watchTestsFiles" \notin Range(last.api)
    /\ createContinuousRequest(World).includeDef =>
           \A i \in DOMAIN runner.continuousRequests :
               reqs[runner.continuousRequests[i]].includeDef

\* C25: runTests with a continuous request appends the request to the
\* continuous set and sends one watch command; it leaves the one-shot slot,
\* the open run, the completion signal, the exhaustion listeners, the
\* suspended calls, the tree and the other requests as they were, opens and
\* ends no run and fires no exhaustion signal. The same holds for the slot,
\* the run and the signal when runCoverage makes the call.
C25_ContinuousRunTestsFrame ==
    [][/\ (last'.op = "runTests" /\ reqs'[last'.arg].continuous) =>
              /\ runner' = [runner EXCEPT !.continuousRequests = Append(@, last'.arg)]
              /\ host' = host
              /\ tree' = tree
              /\ proc' = [proc EXCEPT !.watching = TRUE]
              /\ \A i \in DOMAIN reqs : reqs'[i] = reqs[i]
              /\ reqs'[last'.arg].st = "watching"
              /\ last'.api \in {<<"watchTests">>, <<"watchTestsFiles">>}
              /\ last'.opened = {}
              /\ last'.ended = {}
              /\ last'.marks = {}
              /\ last'.fired = 0
       /\ (last'.op = "enableCoverageDone" /\ reqs'[last'.arg].st = "watching") =>
              /\ runner'.nonContinuousRequest = runner.nonContinuousRequest
              /\ runner'.testRun = runner.testRun
              /\ runner'.testRunDefer = runner.testRunDefer
              /\ host' = host
              /\ last'.opened = {}
              /\ last'.ended = {}
              /\ last'.fired = 0]_vars

\* A continuous request was registered while the run of a one-shot request
\* was open and its completion signal pending.
C25_RegisteredDuringOneShotRun ==
    /\ last.op = "runTests"
    /\ reqs[last.arg].continuous
    /\ runner.nonContinuousRequest # 0
    /\ runner.testRun # NoRun
    /\ runner.testRunDefer # 0
    /\ reqs[runner.testRunDefer].defer = "pending"

====
